---- MODULE Spec2Model ----
(***************************************************************************)
(* Layer-wise energy profiler (energy_profiler.py): a foreground thread    *)
(* runs the layer profiling loop and run_layer, and one power_logger       *)
(* thread per run_layer call polls the power source into a queue.          *)
(*                                                                         *)
(* Representation of numbers.  Every Python float of the program is kept   *)
(* as an integer number of thousandths: seconds as milliseconds, watts as  *)
(* milliwatts, joules as millijoules.  FxMul and FxDiv are multiplication  *)
(* and division in that representation (truncating).                       *)
(***************************************************************************)
EXTENDS Integers, Sequences, FiniteSets, TLC

\* ---------------------------------------------------------------- bounds
NumUnits == 2          \* length of `layers`
MaxTime == 30          \* the clock readings are free up to this instant (ms)
ClockStep == 10        \* granularity of the monotonic clock (ms)
MaxSamples == 2        \* total number of polls over the whole run

\* ------------------------------------------------------ program constants
NUM_REPEATS == 100
POLL_INTERVAL == 20    \* 0.02 s
WARMUP == 5

Units == 1..NumUnits
\* Raw "Power TOT" readings of the power source, in mW.
PowerReadings == {0, 5000}

VARIABLES
    now,            \* the latest instant the monotonic clock is known to
                    \* have reached, ms
    layer_inputs,   \* unit -> TRUE iff the forward hook captured an input
    i,              \* index of the profiling loop
    pc,             \* position of the foreground thread
    k,              \* executions done in the current warmup / timed loop
    start, end_,    \* run_layer locals (the frame is cleared on return)
    duration, samples, energy, avg_power,
    power_q,        \* unit -> queue of its run_layer call
    stop_event,     \* unit -> Event of its run_layer call
    spc,            \* unit -> position of its power_logger thread
    wake,           \* unit -> when the sleep of its power_logger ends
    results, total_energy, total_duration,
    printed,        \* the [SKIP] and [FAIL] lines printed so far
    thread_exc,     \* unit -> exception that ended its power_logger thread
    polls,          \* number of polls made so far, by all threads
    tail,           \* history: samples put after stop_event.set() in the
                    \* run_layer call at hand
    putlog,         \* history: unit -> everything put into its queue
    drained         \* history: unit -> everything got from its queue
                    \* (both forgotten when the queue is garbage)

vars == <<now, layer_inputs, i, pc, k, start, end_, duration, samples,
          energy, avg_power, power_q, stop_event, spc, wake, results,
          total_energy, total_duration, printed, thread_exc, polls, tail,
          putlog, drained>>

locals == <<start, end_, duration, samples, energy, avg_power>>
fgvars == <<i, pc, k, locals, results, total_energy, total_duration, printed,
            drained>>
bgvars == <<spc, wake, thread_exc, polls, tail, putlog>>

\* ------------------------------------------------------------- arithmetic
FxMul(a, b) == (a * b) \div 1000
FxDiv(a, b) == (a * 1000) \div b

RECURSIVE Sum(_)
Sum(s) == IF s = <<>> THEN 0 ELSE Head(s) + Sum(Tail(s))

\* jetson.stats: a dict that holds the board power in mW under "Power TOT",
\* or lacks the key.
Stats == {[key \in {"Power TOT"} |-> mw] : mw \in PowerReadings}
             \cup {[key \in {} |-> 0]}

\* dict.get(key, default)
Get(d, key, default) == IF key \in DOMAIN d THEN d[key] ELSE default

\* stats.get("Power TOT", 0) / 1000.0 : mW to W.  The integer mw is
\* mw * 1000 thousandths, which the division by 1000.0 divides by 1000.
ToWatts(stats) == (Get(stats, "Power TOT", 0) * 1000) \div 1000

\* InWindow with the bounds excluded (both comparisons strict).
InWindowStrict(t, s, e) == s < t /\ t < e

\* InWindow with no upper bound.
InWindowOpenEnd(t, s, e) == s <= t

\* start <= t <= end
InWindow(t, s, e) == s <= t /\ t <= e

\* Energy without the factor POLL_INTERVAL.
EnergyUnscaled(smp) == Sum(smp)

\* energy = sum(samples) * POLL_INTERVAL
Energy(smp) == FxMul(Sum(smp), POLL_INTERVAL)

\* Python's a / b: a division by zero raises ZeroDivisionError.
PyDiv(a, b) ==
    IF b = 0 THEN [exc |-> "ZeroDivisionError", val |-> 0]
             ELSE [exc |-> "", val |-> FxDiv(a, b)]

\* AvgPower without the guard on duration.
AvgPowerUnguarded(e, d) == PyDiv(e, d)

\* AvgPower multiplying where the code divides.
AvgPowerTimes(e, d) ==
    IF d > 0 THEN [exc |-> "", val |-> FxMul(e, d)] ELSE [exc |-> "", val |-> 0]

\* avg_power = energy / duration if duration > 0 else 0
AvgPower(e, d) == IF d > 0 THEN PyDiv(e, d) ELSE [exc |-> "", val |-> 0]

\* ------------------------------------------------------------------ state
Alive(u) == spc[u] \notin {"idle", "dead"}
\* Inside `with jtop() as jetson`.
Holding(u) == spc[u] \in {"check", "poll", "sleep"}

Init ==
    /\ now = 0
    /\ layer_inputs \in [Units -> BOOLEAN]
    /\ i = 1
    /\ pc = "loop"
    /\ k = 0
    /\ start = 0
    /\ end_ = 0
    /\ duration = 0
    /\ samples = <<>>
    /\ energy = 0
    /\ avg_power = 0
    /\ power_q = [u \in Units |-> <<>>]
    /\ stop_event = [u \in Units |-> FALSE]
    /\ spc = [u \in Units |-> "idle"]
    /\ wake = [u \in Units |-> 0]
    /\ results = <<>>
    /\ total_energy = 0
    /\ total_duration = 0
    /\ printed = {}
    /\ thread_exc = [u \in Units |-> ""]
    /\ polls = 0
    /\ tail = 0
    /\ putlog = [u \in Units |-> <<>>]
    /\ drained = [u \in Units |-> <<>>]

\* ------------------------------------------------------------------ clock
\* Readings of a clock that may step back: any instant at all.
ReadingsAnyTime == {j * ClockStep : j \in 0..(MaxTime \div ClockStep)}

\* What a call of time.monotonic() may return: any instant not before the
\* latest one the clock is known to have reached.  Time passes between any
\* two steps of the program, by any amount; past MaxTime the readings stay
\* at the latest known instant.
Readings ==
    IF now >= MaxTime THEN {now}
    ELSE {now + j * ClockStep : j \in 0..((MaxTime - now) \div ClockStep)}

\* ----------------------------------------------------- power_logger thread
\* with jtop() as jetson: the connection is opened.
JtopOpen(u) ==
    /\ spc[u] = "open"
    /\ spc' = [spc EXCEPT ![u] = "check"]
    /\ UNCHANGED <<now, layer_inputs, fgvars, power_q, stop_event, wake,
                   thread_exc, polls, tail, putlog>>

\* jtop() raises: the exception ends the thread, nothing else sees it.
JtopOpenFails(u) ==
    /\ spc[u] = "open"
    /\ spc' = [spc EXCEPT ![u] = "dead"]
    /\ thread_exc' = [thread_exc EXCEPT ![u] = "JtopException"]
    /\ UNCHANGED <<now, layer_inputs, fgvars, power_q, stop_event, wake, polls,
                   tail, putlog>>

\* while not stop_event.is_set(): when set, the loop and the with block are
\* left and the thread terminates.
LoopCheck(u) ==
    /\ spc[u] = "check"
    /\ IF stop_event[u]
       THEN spc' = [spc EXCEPT ![u] = "dead"]
       ELSE /\ polls < MaxSamples
            /\ spc' = [spc EXCEPT ![u] = "poll"]
    /\ UNCHANGED <<now, layer_inputs, fgvars, power_q, stop_event, wake,
                   thread_exc, polls, tail, putlog>>

\* QueueOf with one queue for all threads: that of the call at hand.
QueueOfShared(u) == IF i \in Units THEN i ELSE u

\* The queue the thread of the u-th call puts into: args=(stop_event,
\* power_q) binds the queue created in the same call.
QueueOf(u) == u

\* One iteration of the loop body: stats = jetson.stats; power = ...;
\* ts = time.monotonic(); power_q.put((ts, power)); time.sleep begins.
Poll(u) ==
    /\ spc[u] = "poll"
    /\ \E stats \in Stats, t \in Readings :
          LET sample == <<t, ToWatts(stats)>>
          IN  /\ power_q' = [power_q EXCEPT ![QueueOf(u)] = Append(@, sample)]
              /\ putlog' = [putlog EXCEPT ![u] = Append(@, sample)]
              /\ wake' = [wake EXCEPT ![u] = t + POLL_INTERVAL]
              /\ now' = t
    /\ polls' = polls + 1
    /\ tail' = IF stop_event[u] THEN tail + 1 ELSE tail
    /\ spc' = [spc EXCEPT ![u] = "sleep"]
    /\ UNCHANGED <<layer_inputs, fgvars, stop_event, thread_exc>>

\* jetson.stats raises: nothing in the loop catches it, the with block is
\* left and the exception ends the thread.
ReadFails(u) ==
    /\ spc[u] = "poll"
    /\ spc' = [spc EXCEPT ![u] = "dead"]
    /\ thread_exc' = [thread_exc EXCEPT ![u] = "ReadError"]
    /\ UNCHANGED <<now, layer_inputs, fgvars, power_q, stop_event, wake, polls,
                   tail, putlog>>

\* Wake with no sleep between two polls: the clock need not have moved.
WakeEarly(u) ==
    /\ spc[u] = "sleep"
    /\ now' = now
    /\ wake' = [wake EXCEPT ![u] = 0]
    /\ spc' = [spc EXCEPT ![u] = "check"]
    /\ UNCHANGED <<layer_inputs, fgvars, power_q, stop_event, thread_exc, polls,
                   tail, putlog>>

\* time.sleep(POLL_INTERVAL) returns: the clock has reached the end of the
\* sleep, at least.
Wake(u) ==
    /\ spc[u] = "sleep"
    /\ now' = IF wake[u] > now THEN wake[u] ELSE now
    /\ wake' = [wake EXCEPT ![u] = 0]
    /\ spc' = [spc EXCEPT ![u] = "check"]
    /\ UNCHANGED <<layer_inputs, fgvars, power_q, stop_event, thread_exc, polls,
                   tail, putlog>>

power_logger(u) ==
    \/ JtopOpen(u) \/ JtopOpenFails(u) \/ LoopCheck(u) \/ Poll(u)
    \/ ReadFails(u) \/ Wake(u)

\* ------------------------------------------------------- foreground thread
\* Skip that starts a power_logger thread all the same.
SkipStartsSampler ==
    /\ pc = "loop" /\ i <= NumUnits
    /\ ~layer_inputs[i]
    /\ printed' = printed \cup {<<"SKIP", i, "No input captured">>}
    /\ spc' = [spc EXCEPT ![i] = "open"]
    /\ i' = i + 1
    /\ UNCHANGED <<now, layer_inputs, pc, k, locals, results, total_energy,
                   total_duration, drained, wake, thread_exc, polls, tail,
                   putlog, power_q, stop_event>>

\* [SKIP]: no input captured for layers[i].
Skip ==
    /\ pc = "loop" /\ i <= NumUnits
    /\ ~layer_inputs[i]
    /\ printed' = printed \cup {<<"SKIP", i, "No input captured">>}
    /\ i' = i + 1
    /\ UNCHANGED <<now, layer_inputs, pc, k, locals, results, total_energy,
                   total_duration, drained, bgvars, power_q, stop_event>>

\* run_layer is entered: queue, event and thread are created, the thread is
\* started.
StartSession ==
    /\ pc = "loop" /\ i <= NumUnits
    /\ layer_inputs[i]
    /\ power_q' = [power_q EXCEPT ![i] = <<>>]
    /\ stop_event' = [stop_event EXCEPT ![i] = FALSE]
    /\ spc' = [spc EXCEPT ![i] = "open"]
    /\ pc' = "warmup"
    /\ k' = 0
    /\ UNCHANGED <<now, layer_inputs, i, locals, results, total_energy,
                   total_duration, printed, drained, wake, thread_exc, polls,
                   tail, putlog>>

\* for _ in range(5): _ = layer(input_tensor), every execution returning.
\* The executions touch nothing the power_logger threads touch, so they
\* commute with every step of those: what the threads do during the loop
\* are the steps they take while the foreground stands before it.
WarmupLoop ==
    /\ pc = "warmup" /\ k = 0
    /\ k' = WARMUP
    /\ UNCHANGED <<now, layer_inputs, i, pc, locals, results, total_energy,
                   total_duration, printed, drained, bgvars, power_q,
                   stop_event>>

\* RecordStart that may also be taken before the warmup loop has run.
RecordStartEarly ==
    /\ pc = "warmup" /\ k \in {0, WARMUP}
    /\ \E t \in Readings : start' = t /\ now' = t
    /\ pc' = "timed"
    /\ k' = 0
    /\ UNCHANGED <<layer_inputs, i, end_, duration, samples, energy,
                   avg_power, results, total_energy, total_duration, printed,
                   drained, bgvars, power_q, stop_event>>

\* start = time.monotonic()
RecordStart ==
    /\ pc = "warmup" /\ k = WARMUP
    /\ \E t \in Readings : start' = t /\ now' = t
    /\ pc' = "timed"
    /\ k' = 0
    /\ UNCHANGED <<layer_inputs, i, end_, duration, samples, energy,
                   avg_power, results, total_energy, total_duration, printed,
                   drained, bgvars, power_q, stop_event>>

\* for _ in range(NUM_REPEATS): _ = layer(input_tensor), every execution
\* returning.
TimedLoop ==
    /\ pc = "timed" /\ k = 0
    /\ k' = NUM_REPEATS
    /\ UNCHANGED <<now, layer_inputs, i, pc, locals, results, total_energy,
                   total_duration, printed, drained, bgvars, power_q,
                   stop_event>>

\* end = time.monotonic()
RecordEnd ==
    /\ pc = "timed" /\ k = NUM_REPEATS
    /\ \E t \in Readings : end_' = t /\ now' = t
    /\ pc' = "set"
    /\ UNCHANGED <<layer_inputs, i, k, start, duration, samples, energy,
                   avg_power, results, total_energy, total_duration, printed,
                   drained, bgvars, power_q, stop_event>>

\* Except with no handler around run_layer: the exception ends the program.
ExceptUncaught(exc) ==
    /\ printed' = printed \cup {<<"FAIL", i, exc>>}
    /\ i' = i
    /\ pc' = "done"
    /\ k' = 0
    /\ start' = 0 /\ end_' = 0 /\ duration' = 0 /\ samples' = <<>>
    /\ energy' = 0 /\ avg_power' = 0
    /\ UNCHANGED <<results, total_energy, total_duration>>

\* run_layer raises `exc`: its frame is gone, the handler of the profiling
\* loop prints [FAIL] and the loop goes on with the next layer.
Except(exc) ==
    /\ printed' = printed \cup {<<"FAIL", i, exc>>}
    /\ i' = i + 1
    /\ pc' = "loop"
    /\ k' = 0
    /\ start' = 0 /\ end_' = 0 /\ duration' = 0 /\ samples' = <<>>
    /\ energy' = 0 /\ avg_power' = 0
    /\ UNCHANGED <<results, total_energy, total_duration>>

\* An execution of the layer raises, in the warmup or in the timed loop.
UnitRaises ==
    /\ \/ pc = "warmup" /\ k < WARMUP
       \/ pc = "timed" /\ k < NUM_REPEATS
    /\ Except("UnitError")
    /\ UNCHANGED <<now, layer_inputs, drained, bgvars, power_q, stop_event>>

\* stop_event.set()
StopSet ==
    /\ pc = "set"
    /\ stop_event' = [stop_event EXCEPT ![i] = TRUE]
    /\ pc' = "join"
    /\ UNCHANGED <<now, layer_inputs, i, k, locals, results, total_energy,
                   total_duration, printed, drained, bgvars, power_q>>

\* Join that does not wait for the thread to terminate.
JoinNoWait ==
    /\ pc = "join"
    /\ duration' = end_ - start
    /\ samples' = <<>>
    /\ pc' = "drain"
    /\ UNCHANGED <<now, layer_inputs, i, k, start, end_, energy, avg_power,
                   results, total_energy, total_duration, printed, drained,
                   bgvars, power_q, stop_event>>

\* power_thread.join() returns; duration = end - start; samples = []
Join ==
    /\ pc = "join"
    /\ spc[i] = "dead"
    /\ duration' = end_ - start
    /\ samples' = <<>>
    /\ pc' = "drain"
    /\ UNCHANGED <<now, layer_inputs, i, k, start, end_, energy, avg_power,
                   results, total_energy, total_duration, printed, drained,
                   bgvars, power_q, stop_event>>

\* One iteration of `while not power_q.empty()`.
Drain ==
    /\ pc = "drain"
    /\ power_q[i] # <<>>
    /\ LET tp == Head(power_q[i])
       IN  /\ power_q' = [power_q EXCEPT ![i] = Tail(@)]
           /\ drained' = [drained EXCEPT ![i] = Append(@, tp)]
           /\ samples' = IF InWindow(tp[1], start, end_)
                         THEN Append(samples, tp[2])
                         ELSE samples
    /\ UNCHANGED <<now, layer_inputs, i, pc, k, start, end_, duration, energy,
                   avg_power, results, total_energy, total_duration, printed,
                   bgvars, stop_event>>

\* The queue is found empty; energy = ...; avg_power = ...
Aggregate ==
    /\ pc = "drain"
    /\ power_q[i] = <<>>
    /\ LET e == Energy(samples)
           a == AvgPower(e, duration)
       IN  IF a.exc # ""
           THEN /\ Except(a.exc)
                /\ UNCHANGED drained
           ELSE /\ energy' = e
                /\ avg_power' = a.val
                /\ pc' = "return"
                /\ UNCHANGED <<i, k, start, end_, duration, samples, results,
                               total_energy, total_duration, printed,
                               drained>>
    /\ UNCHANGED <<now, layer_inputs, bgvars, power_q, stop_event>>

\* Return adding the totals but not appending the result.
ReturnNoAppend ==
    /\ pc = "return"
    /\ total_energy' = total_energy + energy
    /\ total_duration' = total_duration + duration
    /\ results' = results
    /\ i' = i + 1
    /\ pc' = "loop"
    /\ k' = 0
    /\ start' = 0 /\ end_' = 0 /\ duration' = 0 /\ samples' = <<>>
    /\ energy' = 0 /\ avg_power' = 0
    /\ putlog' = [putlog EXCEPT ![i] = <<>>]
    /\ drained' = [drained EXCEPT ![i] = <<>>]
    /\ tail' = 0
    /\ UNCHANGED <<now, layer_inputs, printed, spc, wake, thread_exc, polls,
                   power_q, stop_event>>

\* run_layer returns; the loop adds the totals and appends the result.
Return ==
    /\ pc = "return"
    /\ total_energy' = total_energy + energy
    /\ total_duration' = total_duration + duration
    /\ results' = Append(results,
           [name |-> i, duration |-> duration, energy |-> energy,
            avg_power |-> avg_power, samples |-> samples])
    /\ i' = i + 1
    /\ pc' = "loop"
    /\ k' = 0
    /\ start' = 0 /\ end_' = 0 /\ duration' = 0 /\ samples' = <<>>
    /\ energy' = 0 /\ avg_power' = 0
    /\ putlog' = [putlog EXCEPT ![i] = <<>>]
    /\ drained' = [drained EXCEPT ![i] = <<>>]
    /\ tail' = 0
    /\ UNCHANGED <<now, layer_inputs, printed, spc, wake, thread_exc, polls,
                   power_q, stop_event>>

\* The loop over `layers` is exhausted; export, plot and summary follow.
LoopEnd ==
    /\ pc = "loop" /\ i > NumUnits
    /\ pc' = "done"
    /\ UNCHANGED <<now, layer_inputs, i, k, locals, results, total_energy,
                   total_duration, printed, drained, bgvars, power_q,
                   stop_event>>

run_layer ==
    \/ StartSession \/ WarmupLoop \/ RecordStart \/ TimedLoop \/ RecordEnd
    \/ UnitRaises \/ StopSet \/ Join \/ Drain \/ Aggregate \/ Return

Next ==
    \/ \E u \in Units : power_logger(u)
    \/ Skip
    \/ run_layer
    \/ LoopEnd

Spec == Init /\ [][Next]_vars

\* ------------------------------------------------------------------ claims
Range(f) == {f[x] : x \in DOMAIN f}
\* Units with an entry in results, units with a [FAIL] line, units whose
\* run_layer call has ended.
Measured == {r.name : r \in Range(results)}
Raised == {u \in Units : \E p \in printed : p[1] = "FAIL" /\ p[2] = u}
Attempted == {u \in Units : u < i /\ layer_inputs[u]}

\* C1: once join() has returned, the power_logger thread of the session has
\* terminated, what the foreground has got from the queue followed by what
\* the queue still holds is what was put, in the order of the puts, and when
\* the queue is found empty the drained samples are exactly the samples put;
\* no queue of a measured unit ever holds a sample again.
StopBarrier ==
    /\ pc \in {"drain", "return"} =>
          /\ ~Alive(i)
          /\ drained[i] \o power_q[i] = putlog[i]
    /\ pc = "return" => drained[i] = putlog[i]
    /\ \A u \in Measured : ~Alive(u) /\ power_q[u] = <<>> /\ putlog[u] = <<>>

\* C1 witness: a session has drained two different samples.
StopBarrierWitness ==
    /\ pc = "return"
    /\ Len(drained[i]) = 2
    /\ drained[i][1] # drained[i][2]

\* C2: at most one power_logger thread is alive, and at most one holds the
\* connection, at any time.
AtMostOneSampler ==
    /\ Cardinality({u \in Units : Alive(u)}) <= 1
    /\ Cardinality({u \in Units : Holding(u)}) <= 1

\* C3: every unit with an input whose turn has passed is either measured or
\* failed, never both; len(results) is the number of units attempted minus
\* the number that raised; and the loop ends only after the last unit.
FailureIsolation ==
    /\ \A u \in Attempted : (u \in Measured) # (u \in Raised)
    /\ Len(results) = Cardinality(Attempted) - Cardinality(Raised)
    /\ pc = "done" => i = NumUnits + 1

\* C3 witness: the run is over, a unit raised and a later unit was measured.
FailureIsolationWitness ==
    /\ pc = "done"
    /\ \E u \in Raised : \E v \in Measured : u < v

\* C4: if jtop() raises in the thread of unit u, no result is appended for
\* u or for any later unit.
SourceUnavailableAborts ==
    \A u \in Units :
        thread_exc[u] = "JtopException" => \A v \in Measured : v < u

\* C5: when the next unit has begun, and when the run is over, the
\* power_logger thread of every earlier unit has terminated.
SamplerNested ==
    \A u \in Units : (u < i /\ pc # "loop") => ~Alive(u)

\* C6: a thread that met a read error has not terminated unless its stop
\* signal is set.
TransientReadSkipped ==
    \A u \in Units :
        (thread_exc[u] = "ReadError" /\ spc[u] = "dead") => stop_event[u]

\* The watts of the samples of q whose timestamp t has s <= t and t <= e,
\* in the order of q.
RECURSIVE SelectWatts(_, _, _)
SelectWatts(q, s, e) ==
    IF q = <<>> THEN <<>>
    ELSE LET rest == SelectWatts(Tail(q), s, e)
         IN  IF Head(q)[1] >= s /\ Head(q)[1] <= e
             THEN <<Head(q)[2]>> \o rest
             ELSE rest

\* C7: samples is the subsequence of the drained samples whose timestamp
\* lies in [start, end], both bounds included, in enqueue order.
WindowFiltering ==
    pc \in {"drain", "return"} => samples = SelectWatts(drained[i], start, end_)

\* C7 witness: a warmup sample (before start) was dropped and a sample
\* stamped exactly at the end of a non-empty window was kept.
WindowFilteringWitness ==
    /\ pc = "return"
    /\ start < end_
    /\ \E j \in DOMAIN drained[i] : drained[i][j][1] < start
    /\ \E j \in DOMAIN drained[i] : drained[i][j][1] = end_
    /\ Len(samples) = 1

\* C8: the energy is the polling interval times the sum of the watts of the
\* selected samples (energy, watts and interval in thousandths).
RectangleRule ==
    /\ pc = "return" => energy * 1000 = POLL_INTERVAL * Sum(samples)
    /\ \A r \in Range(results) : r.energy * 1000 = POLL_INTERVAL * Sum(r.samples)

\* C8 witness: a result with two samples and a positive energy.
RectangleRuleWitness ==
    \E r \in Range(results) : Len(r.samples) = 2 /\ r.energy > 0

\* C9: an empty selected sample set gives energy 0 and avg_power 0, and
\* run_layer raises nothing of its own: every [FAIL] is a unit's error.
EmptyWindowZero ==
    /\ (pc = "return" /\ samples = <<>>) => (energy = 0 /\ avg_power = 0)
    /\ \A r \in Range(results) :
          r.samples = <<>> => (r.energy = 0 /\ r.avg_power = 0)
    /\ \A p \in printed : p[1] = "FAIL" => p[3] = "UnitError"

\* C9 witness: a result with no samples and a zero-duration window.
EmptyWindowZeroWitness ==
    \E r \in Range(results) : r.samples = <<>> /\ r.duration = 0

\* C10: for a result with duration > 0, avg_power times duration is the
\* energy up to one unit of the last place; with duration 0, avg_power is 0.
DerivedConsistency ==
    \A r \in Range(results) :
        /\ r.duration > 0 =>
              LET back == (r.avg_power * r.duration) \div 1000
              IN  back <= r.energy /\ r.energy - back <= 1
        /\ r.duration = 0 => r.avg_power = 0
        /\ r.duration >= 0

\* C10 witness: a result with positive duration and energy whose quotient
\* is not exact, and a result with zero duration and samples.
DerivedConsistencyWitness ==
    /\ \E r \in Range(results) :
          /\ r.duration > 0 /\ r.energy > 0
          /\ r.avg_power * r.duration # r.energy * 1000
    /\ \E r \in Range(results) : r.duration = 0 /\ r.samples # <<>>

\* C11: while the timed window is open (start recorded, stop signal not
\* yet set) the power_logger thread of the session is running and has not
\* been told to stop.
SamplingCoversWindow ==
    pc \in {"timed", "set"} => (Alive(i) /\ ~stop_event[i])

\* The durations and the energies of the entries of results.
Durations == [j \in DOMAIN results |-> results[j].duration]
Energies == [j \in DOMAIN results |-> results[j].energy]

\* C12: at every point of the run total_duration is the sum of the
\* durations and total_energy the sum of the energies of the entries of
\* results, and a unit that raised has no entry.
RunTotals ==
    /\ total_duration = Sum(Durations)
    /\ total_energy = Sum(Energies)
    /\ Raised \cap Measured = {}

\* C12 witness: two units measured, each with a positive duration and energy.
RunTotalsWitness ==
    /\ Len(results) = 2
    /\ \A r \in Range(results) : r.duration > 0 /\ r.energy > 0

\* The power source returned w at every poll of the session that is about
\* to return.
ConstantSource(w) ==
    \A j \in DOMAIN drained[i] : drained[i][j][2] = w

\* C13 as stated: with a constant source of w watts the energy differs from
\* w times the duration by at most POLL_INTERVAL times w, in either
\* direction (stated for the sessions whose thread met no exception and
\* polled at least once).
EnergyWithinOneSample ==
    \A w \in PowerReadings :
        (/\ pc = "return" /\ ConstantSource(w)
         /\ thread_exc[i] = "" /\ drained[i] # <<>>) =>
            /\ energy * 1000 <= w * duration + POLL_INTERVAL * w
            /\ w * duration <= energy * 1000 + POLL_INTERVAL * w

\* C13 as amended: with a constant source of w watts the energy exceeds
\* w times the duration by at most POLL_INTERVAL times w.
EnergyAtMostOneSampleOver ==
    \A w \in PowerReadings :
        (pc = "return" /\ ConstantSource(w)) =>
            energy * 1000 <= w * duration + POLL_INTERVAL * w

\* C13 witness: a constant source of 5 W, two samples in a window of
\* positive duration, and the energy exactly one sample over.
EnergyAtMostOneSampleOverWitness ==
    /\ pc = "return"
    /\ ConstantSource(5000)
    /\ Len(samples) = 2
    /\ duration > 0
    /\ energy * 1000 = 5000 * duration + POLL_INTERVAL * 5000

\* What a result records besides the unit's name and the raw sample list:
\* the fields an empty-window marker could be read from.
Recorded(r) == <<r.duration, r.energy, r.avg_power>>

\* C14: a result with an empty selected sample set is told apart, by what
\* is recorded with it, from a result whose samples were all 0 W.
EmptyWindowFlagged ==
    \A r1, r2 \in Range(results) :
        (/\ r1.samples = <<>>
         /\ r2.samples # <<>>
         /\ \A j \in DOMAIN r2.samples : r2.samples[j] = 0)
        => Recorded(r1) # Recorded(r2)

NotAfterEnd == {j \in DOMAIN drained[i] : drained[i][j][1] <= end_}
\* C15: at most one sample is put after stop_event.set() in a run_layer
\* call, and no sample with a timestamp after `end` gets into `samples`:
\* `samples` holds no more entries than samples not after `end` were drained.
TailSampleBound ==
    /\ tail <= 1
    /\ pc \in {"drain", "return"} => Len(samples) <= Cardinality(NotAfterEnd)
TailSampleBoundWitness ==
    /\ pc = "return" /\ tail = 1
    /\ \E j \in DOMAIN drained[i] : drained[i][j][1] > end_
    /\ samples # <<>>

ExecutorStep ==
    /\ (pc = "warmup" /\ pc' = "timed") => (k = WARMUP /\ k' = 0)
    /\ (pc = "timed" /\ pc' = "set") => (k = NUM_REPEATS /\ end_' >= start)
    /\ k' > k => (pc \in {"warmup", "timed"} /\ pc' = pc /\ UNCHANGED bgvars)
\* C16: in a run_layer call the executions of the layer are steps of the
\* foreground alone, `start` is recorded when the 5 warmup executions are
\* done, `end` when NUM_REPEATS more are done, and end >= start from then on.
ExecutorOrdering ==
    /\ [][ExecutorStep]_vars
    /\ [](pc \in {"set", "join", "drain", "return"} =>
              (k = NUM_REPEATS /\ end_ >= start))
ExecutorOrderingWitness ==
    pc = "set" /\ k = NUM_REPEATS /\ end_ > start

NonDecreasing(q) == \A a, b \in DOMAIN q : a < b => q[a][1] <= q[b][1]
\* C17: the samples one power_logger thread has put carry non-decreasing
\* timestamps in the order of the puts, and so do the samples in its queue,
\* whatever the foreground does in between.
TimestampsNonDecreasing ==
    \A u \in Units : NonDecreasing(putlog[u]) /\ NonDecreasing(power_q[u])
TimestampsNonDecreasingWitness ==
    \E u \in Units :
        /\ Len(putlog[u]) = 2
        /\ putlog[u][1][1] < putlog[u][2][1]
        /\ pc \in {"timed", "set", "join"}

IsSuffix(q, log) ==
    /\ Len(q) <= Len(log)
    /\ \A j \in DOMAIN q : q[j] = log[Len(log) - Len(q) + j]
IsPrefix(q, log) ==
    /\ Len(q) <= Len(log)
    /\ \A j \in DOMAIN q : q[j] = log[j]
\* C18: the queue of a run_layer call holds samples its own thread has put,
\* and nothing else, and what the call has taken out of its queue are the
\* first samples its own thread has put: the thread of an earlier call, also
\* one that is still running, adds nothing to a later call's queue or result.
SessionIsolation ==
    /\ \A u \in Units : IsSuffix(power_q[u], putlog[u])
    /\ i \in Units => IsPrefix(drained[i], putlog[i])
SessionIsolationWitness ==
    /\ i = 2 /\ pc = "return" /\ samples # <<>>
    /\ Alive(1) /\ putlog[1] # <<>>
    /\ putlog[1][Len(putlog[1])][1] >= start

NoInput == {u \in Units : ~layer_inputs[u]}
SkipStep ==
    (pc = "loop" /\ i \in NoInput /\ i' # i) =>
        /\ i' = i + 1 /\ pc' = "loop"
        /\ UNCHANGED <<results, total_energy, total_duration, spc, power_q,
                       stop_event>>
\* C19: the step of the loop over a unit with no input captured leaves
\* results, total_energy and total_duration alone and goes to the next unit;
\* such a unit never has a power_logger thread, a queue entry, an entry in
\* results or a [FAIL] line, and has its [SKIP] line once the loop is past it.
SkipWithoutInput ==
    /\ [][SkipStep]_vars
    /\ [](\A u \in NoInput :
              /\ spc[u] = "idle" /\ power_q[u] = <<>> /\ putlog[u] = <<>>
              /\ u \notin Measured /\ u \notin Raised
              /\ u < i => <<"SKIP", u, "No input captured">> \in printed)
SkipWithoutInputWitness ==
    /\ pc = "done" /\ NoInput = {1} /\ Measured = {2}
    /\ <<"SKIP", 1, "No input captured">> \in printed

====
